---- MODULE Spec2Model ----
(***************************************************************************)
(* Model of the test-run core of main.py: run_performance_test (the        *)
(* orchestrator, on the main thread), the monitor thread (start_monitoring *)
(* in Timed Mode, start_monitoring_performance in Performance Mode), the   *)
(* sampler thread (monitor_system_resources), the workload loops, the      *)
(* SIGINT handler and analyze_results.                                     *)
(*                                                                         *)
(* Time is counted in quarter seconds: monitoring_interval 0.5 s is 2      *)
(* units, max_duration 60 s is 240 units, a run of 2 s lasts 8 units.      *)
(***************************************************************************)
EXTENDS Integers, Sequences, FiniteSets, TLC

VARIABLES
    env,                  \* the environment of the process, fixed at start
    now,                  \* time.time()
    interrupt_flag,       \* the module-level flag (line 248)
    monitoring_data,      \* the module-level dict (line 249)
    calculation_results,  \* the module-level dict (lines 252-257)
    args,                 \* the arguments of the current run_performance_test call
    main_pc,              \* position of the main thread
    start_time,           \* run_performance_test's local start_time
    test_function_name,   \* run_performance_test's local
    iterations,           \* the workload's local iteration count
    i,                    \* the workload's loop variable
    actual_duration,      \* run_performance_test's local
    results,              \* what run_performance_test returned
    mon_pc,               \* position of monitor_thread
    mon_wake,             \* earliest return of the governor's time.sleep(duration)
    smp_pc,               \* position of the sampler thread t
    smp_start_time,       \* monitor_system_resources' local start_time
    smp_wake,             \* earliest return of the sampler's time.sleep(interval)
    cpu_usages, mem_usages, cpu_temps, gpu_temps,   \* the sampler's local lists
    run_no,               \* number of run_performance_test calls so far
    sigints,              \* number of SIGINTs delivered so far
    hist                  \* history of the current run, for stating the properties

vars == <<env, now, interrupt_flag, monitoring_data, calculation_results, args,
          main_pc, start_time, test_function_name, iterations, i,
          actual_duration, results, mon_pc, mon_wake, smp_pc, smp_start_time,
          smp_wake, cpu_usages, mem_usages, cpu_temps, gpu_temps, run_no,
          sigints, hist>>

(***************************************************************************)
(* Bounds of the model.                                                    *)
(***************************************************************************)
MaxTime == 3          \* free passage of time stops here unless a sleeper waits
MaxRuns == 2          \* calls of run_performance_test in one process
MaxSigints == 1       \* SIGINTs delivered to the process
MaxSteps == 2         \* iteration count of the "medium" tier, scaled down

(***************************************************************************)
(* Program constants.                                                      *)
(***************************************************************************)
MonitoringInterval == 2     \* TEST_SETTINGS["monitoring_interval"], 0.5 s
MaxDuration == 240          \* TEST_SETTINGS["max_duration"], 60 s

None == "None"

\* A sleep overshoots by less than one sampling interval.
BoundedJitter == MonitoringInterval - 1

(***************************************************************************)
(* Helpers on sequences of readings.                                       *)
(***************************************************************************)
RECURSIVE Sum(_)
Sum(s) == IF s = <<>> THEN 0 ELSE Head(s) + Sum(Tail(s))

\* The last element instead of the greatest.
Max_Last(s) == s[Len(s)]

RECURSIVE Max(_)
Max(s) == IF Len(s) = 1 THEN Head(s)
          ELSE LET m == Max(Tail(s)) IN IF Head(s) >= m THEN Head(s) ELSE m

\* np.mean of a non-empty list, kept exact as a fraction num/den.
Mean(s) == [num |-> Sum(s), den |-> Len(s)]

\* The literal 0 of "np.mean(x) if x else 0".
Zero == [num |-> 0, den |-> 1]

EmptyDict == [k \in {} |-> 0]

(***************************************************************************)
(* The dispatch tables of run_performance_test.                            *)
(***************************************************************************)
test_functions ==
    {"basic", "hash_calculation", "bitcoin_mining", "matrix_operations",
     "prime_numbers", "neural_simulation", "cpu_intensive",
     "memory_intensive", "io_intensive", "mixed_load"}

load_type_to_function ==
    [lt \in {"CPU_INTENSIVE", "MEMORY_INTENSIVE", "IO_INTENSIVE", "MIXED"} |->
        CASE lt = "CPU_INTENSIVE"    -> "cpu_intensive"
          [] lt = "MEMORY_INTENSIVE" -> "memory_intensive"
          [] lt = "IO_INTENSIVE"     -> "io_intensive"
          [] lt = "MIXED"            -> "mixed_load"]

\* Lines 760-763.
SelectFunction(test_type, load_type) ==
    IF load_type \in DOMAIN load_type_to_function
    THEN load_type_to_function[load_type]
    ELSE test_type

\* The keys of LOAD_TYPES (lines 108-117).
LOAD_TYPES ==
    {"CPU", "GPU", "BOTH", "NEURAL", "CPU_INTENSIVE", "MEMORY_INTENSIVE",
     "IO_INTENSIVE", "MIXED"}

\* The tiers of COMPLEXITY_SETTINGS (lines 139-160).
ComplexityKeys == {"easy", "medium", "hard"}

\* COMPLEXITY_SETTINGS[...][complexity] as each workload reads it, with the
\* iteration counts scaled down: the tiers keep their order.
Iterations(name, complexity) ==
    LET tier == CASE complexity = "easy"   -> MaxSteps - 1
                  [] complexity = "medium" -> MaxSteps
                  [] complexity = "hard"   -> MaxSteps + 1
    IN  IF name = "matrix_operations" THEN MaxSteps   \* range(10), scaled
        ELSE tier

\* The nonces n whose sha256("block_data_n") digest starts with "00"
\* (the real values below 1000).
ZeroPrefixNonces == {2, 271, 393, 640, 652, 659, 962}

\* A digest test that never succeeds.
StartsWith00_Never(nonce) == FALSE

\* hash_result.startswith('00')
StartsWith00(nonce) == nonce \in ZeroPrefixNonces

\* Workloads whose step can raise: LinAlgError from eigvals, MemoryError from
\* the 10000x10000 arrays, OSError from the temporary file.
CanFault(name) ==
    name \in {"matrix_operations", "memory_intensive", "io_intensive", "mixed_load"}

(***************************************************************************)
(* Initial state and the environments of the model.                        *)
(***************************************************************************)

FreshResults ==
    [iterations_completed |-> 0, calculations_performed |-> 0,
     data_processed |-> 0, test_specific_results |-> EmptyDict]

NoArgs == [test_type |-> None, load_type |-> None, complexity |-> None,
           duration |-> 0, performance_mode |-> FALSE]

\* flag_at_start: interrupt_flag when the run launched its monitor thread;
\* sigint_in_run: a SIGINT arrived while run_performance_test was running;
\* natural: the workload's loop ran out of iterations; fault: how the call
\* was left by an exception; at_raise: the ticks recorded when the governor
\* set the flag (-1 before that); raised_first: the flag was still False at
\* that moment; capture_failed: a CPU or memory reading raised in the sampler;
\* late_steps: the workload steps completed with the flag raised;
\* first_check: what the sampler found at its first check of the flag
\* ("raised" or "clear"); late_samples: the samples the sampler has
\* appended with the flag raised, while it is in its loop.
FreshHist == [flag_at_start |-> FALSE, sigint_in_run |-> FALSE,
              natural |-> FALSE, fault |-> None, at_raise |-> -1,
              raised_first |-> FALSE, capture_failed |-> FALSE,
              late_steps |-> 0, first_check |-> None, late_samples |-> 0]

InitCommon ==
    /\ now = 0
    /\ interrupt_flag = FALSE
    /\ monitoring_data = EmptyDict
    /\ calculation_results = FreshResults
    /\ args = NoArgs
    /\ main_pc = "config"
    /\ start_time = 0
    /\ test_function_name = None
    /\ iterations = 0
    /\ i = 0
    /\ actual_duration = 0
    /\ results = EmptyDict
    /\ mon_pc = "idle"
    /\ mon_wake = 0
    /\ smp_pc = "idle"
    /\ smp_start_time = 0
    /\ smp_wake = 0
    /\ cpu_usages = <<>>
    /\ mem_usages = <<>>
    /\ cpu_temps = <<>>
    /\ gpu_temps = <<>>
    /\ run_no = 0
    /\ sigints = 0
    /\ hist = FreshHist

\* The workloads, load types and complexity keys a caller passes: one
\* workload with counters, one whose steps can raise, and an unknown key each.
TestTypeArgs == {"bitcoin_mining", "matrix_operations", "no_such_test"}
LoadTypeArgs == {"CPU", "MIXED", "NO_SUCH_LOAD"}
ComplexityArgs == {"easy", "extreme"}

\* One run with every combination of arguments.
EnvDispatch ==
    [bounded_jitter |-> FALSE, to_ceiling |-> FALSE, horizon |-> MaxTime, runs |-> 1,
     test_types |-> TestTypeArgs, load_types |-> LoadTypeArgs,
     complexities |-> ComplexityArgs, modes |-> BOOLEAN, durations |-> {1},
     cpu |-> {50}, mem |-> {40}, temp |-> {60}, sensors |-> {"none"},
     capture |-> {"ok"}]

\* Several runs in one process.
EnvReuse ==
    [bounded_jitter |-> FALSE, to_ceiling |-> FALSE, horizon |-> MaxTime, runs |-> MaxRuns,
     test_types |-> {"bitcoin_mining"}, load_types |-> {"CPU"},
     complexities |-> {"easy"}, modes |-> BOOLEAN, durations |-> {1},
     cpu |-> {50}, mem |-> {40}, temp |-> {60}, sensors |-> {"none"},
     capture |-> {"ok", "raises"}]

\* One Timed run long enough for several ticks, with every reading.
EnvReadings ==
    [bounded_jitter |-> FALSE, to_ceiling |-> FALSE, horizon |-> MaxTime, runs |-> 1,
     test_types |-> {"bitcoin_mining"}, load_types |-> {"CPU"},
     complexities |-> {"easy"}, modes |-> {FALSE}, durations |-> {3},
     cpu |-> {10, 90}, mem |-> {40}, temp |-> {60},
     sensors |-> {"none", "coretemp"}, capture |-> {"ok"}]

Init == InitCommon /\ env \in {EnvDispatch, EnvReuse, EnvReadings}

\* 2 s, the duration of the Timed run of the sampling scenario.
TwoSeconds == 4 * MonitoringInterval

\* The sampling scenario: sleeps overshoot by at most BoundedJitter and the
\* steps of the monitor and sampler threads take no time.
EnvPunctual ==
    [bounded_jitter |-> TRUE, to_ceiling |-> FALSE, horizon |-> MaxTime,
     runs |-> 1,
     test_types |-> {"bitcoin_mining", "matrix_operations"},
     load_types |-> {"CPU"}, complexities |-> {"easy"}, modes |-> BOOLEAN,
     durations |-> {TwoSeconds},
     cpu |-> {50}, mem |-> {40}, temp |-> {60}, sensors |-> {"none"},
     capture |-> {"ok"}]

InitPunctual == InitCommon /\ env = EnvPunctual

\* The runs whose termination is checked under fair scheduling.
EnvFair ==
    [bounded_jitter |-> FALSE, to_ceiling |-> FALSE, horizon |-> MaxTime, runs |-> 1,
     test_types |-> {"bitcoin_mining", "matrix_operations"},
     load_types |-> {"CPU"}, complexities |-> {"medium"}, modes |-> BOOLEAN,
     durations |-> {1},
     cpu |-> {50}, mem |-> {40}, temp |-> {60}, sensors |-> {"none"},
     capture |-> {"ok", "raises"}]

InitFair == InitCommon /\ env = EnvFair

\* Runs that outlast the ceiling of the sampler: the run is called at once,
\* time passes as long as the sampler sleeps, sleeps are punctual.
EnvCeiling ==
    [bounded_jitter |-> TRUE, to_ceiling |-> TRUE, horizon |-> 0,
     runs |-> 1, test_types |-> {"memory_intensive"},
     load_types |-> {"CPU"}, complexities |-> {"easy"}, modes |-> BOOLEAN,
     durations |-> {1},
     cpu |-> {50}, mem |-> {40}, temp |-> {60}, sensors |-> {"none"},
     capture |-> {"ok"}]

InitCeiling == InitCommon /\ env = EnvCeiling

\* One run of each of the ten workloads.
EnvVariants ==
    [bounded_jitter |-> FALSE, to_ceiling |-> FALSE, horizon |-> MaxTime, runs |-> 1,
     test_types |-> test_functions, load_types |-> {"CPU"},
     complexities |-> {"medium", "hard"}, modes |-> BOOLEAN, durations |-> {1},
     cpu |-> {50}, mem |-> {40}, temp |-> {60}, sensors |-> {"none"},
     capture |-> {"ok"}]

InitVariants == InitCommon /\ env = EnvVariants

\* Runs on hosts whose temperature sensors come and go: on each tick
\* psutil.sensors_temperatures() reports nothing, the CPU sensor or the GPU
\* sensor, with one of two temperatures.
EnvSensors ==
    [bounded_jitter |-> FALSE, to_ceiling |-> FALSE, horizon |-> MaxTime, runs |-> 1,
     test_types |-> {"memory_intensive"}, load_types |-> {"CPU"},
     complexities |-> {"easy"}, modes |-> BOOLEAN, durations |-> {3},
     cpu |-> {50}, mem |-> {40}, temp |-> {60, 80},
     sensors |-> {"none", "coretemp", "amdgpu"}, capture |-> {"ok"}]

InitSensors == InitCommon /\ env = EnvSensors

\* One short run of each of the ten workloads.
EnvWorkloads ==
    [bounded_jitter |-> FALSE, to_ceiling |-> FALSE, horizon |-> MaxTime, runs |-> 1,
     test_types |-> test_functions, load_types |-> {"CPU"},
     complexities |-> {"easy"}, modes |-> BOOLEAN, durations |-> {1},
     cpu |-> {50}, mem |-> {40}, temp |-> {60}, sensors |-> {"none"},
     capture |-> {"ok"}]

InitWorkloads == InitCommon /\ env = EnvWorkloads

\* Nonce searches long enough to find a block, and a workload without
\* counters beside them.
EnvNonce ==
    [bounded_jitter |-> FALSE, to_ceiling |-> FALSE, horizon |-> MaxTime, runs |-> 1,
     test_types |-> {"bitcoin_mining", "matrix_operations"},
     load_types |-> {"CPU"},
     complexities |-> {"medium", "hard"}, modes |-> BOOLEAN, durations |-> {1},
     cpu |-> {50}, mem |-> {40}, temp |-> {60}, sensors |-> {"none"},
     capture |-> {"ok"}]

InitNonce == InitCommon /\ env = EnvNonce

\* Runs whose CPU and memory readings vary from tick to tick.
EnvUsage ==
    [bounded_jitter |-> FALSE, to_ceiling |-> FALSE, horizon |-> MaxTime, runs |-> 1,
     test_types |-> {"memory_intensive"}, load_types |-> {"CPU"},
     complexities |-> {"easy"}, modes |-> BOOLEAN, durations |-> {3},
     cpu |-> {10, 90}, mem |-> {40, 70}, temp |-> {60},
     sensors |-> {"none"}, capture |-> {"ok"}]

InitUsage == InitCommon /\ env = EnvUsage

\* Runs on hosts without usable temperature sensors: on every tick
\* psutil.sensors_temperatures() reports nothing or raises.
EnvNoSensors ==
    [bounded_jitter |-> FALSE, to_ceiling |-> FALSE, horizon |-> MaxTime, runs |-> 1,
     test_types |-> {"memory_intensive"}, load_types |-> {"CPU"},
     complexities |-> {"easy"}, modes |-> BOOLEAN, durations |-> {3},
     cpu |-> {50}, mem |-> {40}, temp |-> {60},
     sensors |-> {"none", "raises"}, capture |-> {"ok"}]

InitNoSensors == InitCommon /\ env = EnvNoSensors

(***************************************************************************)
(* The main thread: run_performance_test and the workload it calls.        *)
(***************************************************************************)
RunActive == main_pc \in {"enter", "check", "step", "join", "measure"}

\* A call that leaves the counters of the previous run in place.
ResultsAtStart_Kept == calculation_results

\* The dict run_performance_test stores in calculation_results (lines 729-735).
ResultsAtStart == FreshResults

\* Lines 713-784, up to the start of monitor_thread or the early return.
RunPerformanceTest(test_type, load_type, complexity, duration, performance_mode) ==
    /\ main_pc \in {"config", "done"}
    /\ run_no < env.runs
    /\ run_no' = run_no + 1
    /\ args' = [test_type |-> test_type, load_type |-> load_type,
                complexity |-> complexity, duration |-> duration,
                performance_mode |-> performance_mode]
    /\ start_time' = now
    /\ calculation_results' = ResultsAtStart
    /\ test_function_name' = SelectFunction(test_type, load_type)
    /\ hist' = [FreshHist EXCEPT !.flag_at_start = interrupt_flag]
    /\ IF test_function_name' \in test_functions
       THEN /\ mon_pc' = "start"
            /\ main_pc' = "enter"
            /\ results' = EmptyDict
       ELSE /\ mon_pc' = "idle"
            /\ main_pc' = "done"
            /\ results' = [error |-> "unknown_test_type"]
    /\ smp_pc' = "idle"
    /\ UNCHANGED <<env, now, interrupt_flag, monitoring_data, iterations, i,
                   actual_duration, mon_wake, smp_start_time, smp_wake,
                   cpu_usages, mem_usages, cpu_temps, gpu_temps, sigints>>

\* The head of a workload function: the COMPLEXITY_SETTINGS lookup (KeyError
\* for an unknown key) and, in bitcoin_mining_simulation, lines 474-476.
WorkloadEnter ==
    /\ main_pc = "enter"
    /\ IF args.complexity \notin ComplexityKeys
       THEN /\ main_pc' = "aborted"
            /\ hist' = [hist EXCEPT !.fault = "KeyError"]
            /\ UNCHANGED <<iterations, i, calculation_results>>
       ELSE /\ main_pc' = "check"
            /\ UNCHANGED hist
            /\ iterations' = Iterations(test_function_name, args.complexity)
            /\ i' = IF test_function_name = "prime_numbers" THEN 2 ELSE 0
            /\ calculation_results' =
                 IF test_function_name = "bitcoin_mining"
                 THEN [calculation_results EXCEPT
                         !.iterations_completed = 0,
                         !.calculations_performed = 0,
                         !.test_specific_results =
                             [hashes_calculated |-> 0, blocks_found |-> 0]]
                 ELSE calculation_results
    /\ UNCHANGED <<env, now, interrupt_flag, monitoring_data, args, start_time,
                   test_function_name, actual_duration, results, mon_pc,
                   mon_wake, smp_pc, smp_start_time, smp_wake, cpu_usages,
                   mem_usages, cpu_temps, gpu_temps, run_no, sigints>>

\* A workload that never looks at the flag.
WorkloadSeesSignal_Never == FALSE

\* The condition of "if interrupt_flag: break" at the head of each
\* workload's loop body (lines 443, 459, 479, 503, 541, 564, 589, 614, 645, 680).
WorkloadSeesSignal == interrupt_flag

\* "for i in range(iterations): if interrupt_flag: break"
WorkloadCheck ==
    /\ main_pc = "check"
    /\ IF i >= iterations
       THEN main_pc' = "join" /\ hist' = [hist EXCEPT !.natural = TRUE]
       ELSE IF WorkloadSeesSignal
            THEN main_pc' = "join" /\ UNCHANGED hist
            ELSE main_pc' = "step" /\ UNCHANGED hist
    /\ UNCHANGED <<env, now, interrupt_flag, monitoring_data,
                   calculation_results, args, start_time, test_function_name,
                   iterations, i, actual_duration, results, mon_pc, mon_wake,
                   smp_pc, smp_start_time, smp_wake, cpu_usages, mem_usages,
                   cpu_temps, gpu_temps, run_no, sigints>>

\* A step that leaves iterations_completed as it was.
BitcoinStep_NoCount(cr, nonce) ==
    [cr EXCEPT
        !.calculations_performed = @ + 1,
        !.test_specific_results =
            [hashes_calculated |-> @.hashes_calculated + 1,
             blocks_found |-> IF StartsWith00(nonce)
                              THEN @.blocks_found + 1
                              ELSE @.blocks_found]]

\* A step that stores i instead of i + 1.
BitcoinStep_Rewind(cr, nonce) ==
    [cr EXCEPT
        !.iterations_completed = nonce,
        !.calculations_performed = @ + 1,
        !.test_specific_results =
            [hashes_calculated |-> @.hashes_calculated + 1,
             blocks_found |-> IF StartsWith00(nonce)
                              THEN @.blocks_found + 1
                              ELSE @.blocks_found]]

\* The counters after one step of bitcoin_mining_simulation (lines 481-490).
BitcoinStep(cr, nonce) ==
    [cr EXCEPT
        !.iterations_completed = nonce + 1,
        !.calculations_performed = @ + 1,
        !.test_specific_results =
            [hashes_calculated |-> @.hashes_calculated + 1,
             blocks_found |-> IF StartsWith00(nonce)
                              THEN @.blocks_found + 1
                              ELSE @.blocks_found]]

\* A workload that raises the flag when a step is done.
FlagAfterStep_Raised == TRUE

\* interrupt_flag after a step of a workload: no workload assigns it (none
\* declares it global, lines 436-706).
FlagAfterStep == interrupt_flag

\* One step of the loop body runs to its end.
WorkloadStep ==
    /\ main_pc = "step"
    /\ main_pc' = "check"
    /\ i' = i + 1
    /\ interrupt_flag' = FlagAfterStep
    /\ calculation_results' =
         IF test_function_name = "bitcoin_mining"
         THEN BitcoinStep(calculation_results, i)
         ELSE calculation_results
    /\ hist' = IF interrupt_flag
               THEN [hist EXCEPT !.late_steps = @ + 1]
               ELSE hist
    /\ UNCHANGED <<env, now, monitoring_data, args, start_time,
                   test_function_name, iterations, actual_duration, results,
                   mon_pc, mon_wake, smp_pc, smp_start_time, smp_wake,
                   cpu_usages, mem_usages, cpu_temps, gpu_temps, run_no,
                   sigints>>

\* One step raises: nothing in the workload or in run_performance_test
\* catches it, so the exception leaves run_performance_test (lines 778-781
\* hold no try).
WorkloadFault ==
    /\ main_pc = "step"
    /\ CanFault(test_function_name)
    /\ main_pc' = "aborted"
    /\ hist' = [hist EXCEPT !.fault = "step"]
    /\ UNCHANGED <<env, now, interrupt_flag, monitoring_data,
                   calculation_results, args, start_time, test_function_name,
                   iterations, i, actual_duration, results, mon_pc, mon_wake,
                   smp_pc, smp_start_time, smp_wake, cpu_usages, mem_usages,
                   cpu_temps, gpu_temps, run_no, sigints>>

\* A join that returns at once.
MonitorJoined_NoWait == TRUE

\* monitor_thread.join() returns once monitor_thread has ended.
MonitorJoined == mon_pc = "exited"

\* monitor_thread.join() (line 781).
MainJoin ==
    /\ main_pc = "join"
    /\ MonitorJoined
    /\ main_pc' = "measure"
    /\ UNCHANGED <<env, now, interrupt_flag, monitoring_data,
                   calculation_results, args, start_time, test_function_name,
                   iterations, i, actual_duration, results, mon_pc, mon_wake,
                   smp_pc, smp_start_time, smp_wake, cpu_usages, mem_usages,
                   cpu_temps, gpu_temps, run_no, sigints, hist>>

\* An aggregator without the guard of line 806: zeros for an empty buffer.
analyze_results_zeros(md, duration) ==
    [duration |-> duration, cpu_usage_avg |-> Zero, cpu_usage_peak |-> 0,
     memory_usage_avg |-> Zero, memory_usage_peak |-> 0,
     cpu_temperature_avg |-> Zero, gpu_temperature_avg |-> Zero]

\* An aggregator that counts a tick without a reading as a reading of zero.
analyze_results_absent_as_zero(md, duration) ==
    IF "cpu" \notin DOMAIN md \/ md["cpu"] = <<>>
    THEN [error |-> "no_monitoring_data"]
    ELSE [duration |-> duration,
          cpu_usage_avg |-> Mean(md["cpu"]),
          cpu_usage_peak |-> Max(md["cpu"]),
          memory_usage_avg |-> Mean(md["mem"]),
          memory_usage_peak |-> Max(md["mem"]),
          cpu_temperature_avg |->
              [num |-> Sum(md["cpu_temp"]), den |-> Len(md["cpu"])],
          gpu_temperature_avg |->
              [num |-> Sum(md["gpu_temp"]), den |-> Len(md["cpu"])]]

\* analyze_results (lines 801-838): the record it returns.
analyze_results(md, duration) ==
    IF "cpu" \notin DOMAIN md \/ md["cpu"] = <<>>
    THEN [error |-> "no_monitoring_data"]
    ELSE [duration |-> duration,
          cpu_usage_avg |-> Mean(md["cpu"]),
          cpu_usage_peak |-> Max(md["cpu"]),
          memory_usage_avg |-> Mean(md["mem"]),
          memory_usage_peak |-> Max(md["mem"]),
          cpu_temperature_avg |->
              IF md["cpu_temp"] # <<>> THEN Mean(md["cpu_temp"]) ELSE Zero,
          gpu_temperature_avg |->
              IF md["gpu_temp"] # <<>> THEN Mean(md["gpu_temp"]) ELSE Zero]

\* d with d[k] = v, as the assignment d[k] = v of Python leaves it.
SetKey(d, k, v) ==
    [x \in DOMAIN d \cup {k} |-> IF x = k THEN v ELSE d[x]]

\* Lines 786-798.
MainFinish ==
    /\ main_pc = "measure"
    /\ actual_duration' = now - start_time
    /\ results' = SetKey(SetKey(analyze_results(monitoring_data, actual_duration'),
                                "duration", actual_duration'),
                         "performance_mode", args.performance_mode)
    /\ main_pc' = "done"
    /\ UNCHANGED <<env, now, interrupt_flag, monitoring_data,
                   calculation_results, args, start_time, test_function_name,
                   iterations, i, mon_pc, mon_wake, smp_pc, smp_start_time,
                   smp_wake, cpu_usages, mem_usages, cpu_temps, gpu_temps,
                   run_no, sigints, hist>>

(***************************************************************************)
(* monitor_thread: start_monitoring (the Timed Mode governor) or           *)
(* start_monitoring_performance.                                           *)
(***************************************************************************)
\* The ticks the sampler of the current run has recorded.
SamplesTaken == IF smp_pc \in {"idle", "begin"} THEN 0 ELSE Len(cpu_usages)

\* A governor that does not wait for the duration.
GovernorSleep_Zero(duration) == 0

\* The argument of the governor's time.sleep (line 408).
GovernorSleep(duration) == duration

\* t.start() (lines 404-406, 421-423), then the governor goes to sleep or the
\* Performance Mode monitor begins to poll.
MonitorStart ==
    /\ mon_pc = "start"
    /\ smp_pc' = "begin"
    /\ IF args.performance_mode
       THEN mon_pc' = "poll" /\ UNCHANGED mon_wake
       ELSE mon_pc' = "sleep" /\ mon_wake' = now + GovernorSleep(args.duration)
    /\ UNCHANGED <<env, now, interrupt_flag, monitoring_data,
                   calculation_results, args, main_pc, start_time,
                   test_function_name, iterations, i, actual_duration, results,
                   smp_start_time, smp_wake, cpu_usages, mem_usages, cpu_temps,
                   gpu_temps, run_no, sigints, hist>>

\* A governor that inverts the flag.
GovernorValue_Flip == ~interrupt_flag

\* A governor that leaves the flag as it finds it.
GovernorValue_Keep == interrupt_flag

\* The value the governor stores in interrupt_flag (line 410).
GovernorValue == TRUE

\* time.sleep(duration) returns and the governor sets the flag (lines 408-410).
GovernorRaise ==
    /\ mon_pc = "sleep"
    /\ now >= mon_wake
    /\ interrupt_flag' = GovernorValue
    /\ mon_pc' = "join_t"
    /\ hist' = [hist EXCEPT !.at_raise = SamplesTaken,
                            !.raised_first = ~interrupt_flag]
    /\ UNCHANGED <<env, now, monitoring_data, calculation_results, args,
                   main_pc, start_time, test_function_name, iterations, i,
                   actual_duration, results, mon_wake, smp_pc, smp_start_time,
                   smp_wake, cpu_usages, mem_usages, cpu_temps, gpu_temps,
                   run_no, sigints>>

\* A poll loop that reads a stale copy of the flag.
PollContinues_Stale == TRUE

\* The condition of "while not interrupt_flag:" in
\* start_monitoring_performance (line 426).
PollContinues == ~interrupt_flag

PerfPoll ==
    /\ mon_pc = "poll"
    /\ mon_pc' = IF PollContinues THEN "poll_sleep" ELSE "join_t"
    /\ UNCHANGED <<env, now, interrupt_flag, monitoring_data,
                   calculation_results, args, main_pc, start_time,
                   test_function_name, iterations, i, actual_duration, results,
                   mon_wake, smp_pc, smp_start_time, smp_wake, cpu_usages,
                   mem_usages, cpu_temps, gpu_temps, run_no, sigints, hist>>

\* time.sleep(0.1) (line 427): shorter than one unit of the clock.
PerfPollWake ==
    /\ mon_pc = "poll_sleep"
    /\ mon_pc' = "poll"
    /\ UNCHANGED <<env, now, interrupt_flag, monitoring_data,
                   calculation_results, args, main_pc, start_time,
                   test_function_name, iterations, i, actual_duration, results,
                   mon_wake, smp_pc, smp_start_time, smp_wake, cpu_usages,
                   mem_usages, cpu_temps, gpu_temps, run_no, sigints, hist>>

\* A join that never returns.
SamplerJoined_Never == FALSE

\* A join that returns only for a sampler that stored its lists.
SamplerJoined_Published == smp_pc = "exited" /\ "cpu" \in DOMAIN monitoring_data

\* t.join() returns once the sampler thread has ended, by returning or by
\* an exception.
SamplerJoined == smp_pc = "exited"

\* t.join() (lines 411, 428) and the end of the thread.
MonitorJoin ==
    /\ mon_pc = "join_t"
    /\ SamplerJoined
    /\ mon_pc' = "exited"
    /\ UNCHANGED <<env, now, interrupt_flag, monitoring_data,
                   calculation_results, args, main_pc, start_time,
                   test_function_name, iterations, i, actual_duration, results,
                   mon_wake, smp_pc, smp_start_time, smp_wake, cpu_usages,
                   mem_usages, cpu_temps, gpu_temps, run_no, sigints, hist>>

(***************************************************************************)
(* The sampler thread: monitor_system_resources.                           *)
(***************************************************************************)
\* Lines 365-369.
SamplerBegin ==
    /\ smp_pc = "begin"
    /\ cpu_usages' = <<>>
    /\ mem_usages' = <<>>
    /\ cpu_temps' = <<>>
    /\ gpu_temps' = <<>>
    /\ smp_start_time' = now
    /\ smp_pc' = "check"
    /\ UNCHANGED <<env, now, interrupt_flag, monitoring_data,
                   calculation_results, args, main_pc, start_time,
                   test_function_name, iterations, i, actual_duration, results,
                   mon_pc, mon_wake, smp_wake, run_no, sigints, hist>>

\* A loop that never looks at the flag.
SamplerContinues_Always == TRUE

\* A loop that is never entered.
SamplerContinues_Never == FALSE

\* A loop that tests the flag as it was when the run began.
SamplerContinues_Stale == ~hist.flag_at_start

\* The condition of "while not interrupt_flag:" (line 370).
SamplerContinues == ~interrupt_flag

SamplerCheck ==
    /\ smp_pc = "check"
    /\ smp_pc' = IF SamplerContinues THEN "capture" ELSE "publish"
    /\ hist' = IF hist.first_check = None
               THEN [hist EXCEPT !.first_check =
                        IF interrupt_flag THEN "raised" ELSE "clear"]
               ELSE hist
    /\ UNCHANGED <<env, now, interrupt_flag, monitoring_data,
                   calculation_results, args, main_pc, start_time,
                   test_function_name, iterations, i, actual_duration, results,
                   mon_pc, mon_wake, smp_start_time, smp_wake, cpu_usages,
                   mem_usages, cpu_temps, gpu_temps, run_no, sigints>>

\* A sampler that sleeps half the interval.
SamplerSleep_Short == MonitoringInterval - 1

\* The argument of the sampler's time.sleep (line 387).
SamplerSleep == MonitoringInterval

\* A tick whose sensor exception is not caught.
TickContinues_Uncaught(sensors) == sensors # "raises"

\* The tick goes on after psutil.sensors_temperatures(): "except Exception:
\* pass" (lines 385-386) catches whatever it raises.
TickContinues(sensors) == TRUE

\* A tick that records no memory reading.
SamplerTick_NoMem(cpu, mem, sensors, temp) ==
    /\ smp_pc = "capture"
    /\ cpu_usages' = Append(cpu_usages, cpu)
    /\ mem_usages' = mem_usages
    /\ cpu_temps' = IF sensors \in {"coretemp", "cpu-thermal", "coretemp+amdgpu"}
                    THEN Append(cpu_temps, temp) ELSE cpu_temps
    /\ gpu_temps' = IF sensors \in {"amdgpu", "coretemp+amdgpu"}
                    THEN Append(gpu_temps, temp) ELSE gpu_temps
    /\ smp_wake' = now + SamplerSleep
    /\ smp_pc' = "sleep"
    /\ hist' = IF interrupt_flag
               THEN [hist EXCEPT !.late_samples = @ + 1]
               ELSE hist
    /\ UNCHANGED <<env, now, interrupt_flag, monitoring_data,
                   calculation_results, args, main_pc, start_time,
                   test_function_name, iterations, i, actual_duration, results,
                   mon_pc, mon_wake, smp_start_time, run_no, sigints>>

\* One tick (lines 371-387): the readings are appended and the sleep begins.
\* sensors is the outcome of psutil.sensors_temperatures(): the key it
\* reports, "none" for an empty dict, "raises" for an exception.
SamplerTick(cpu, mem, sensors, temp) ==
    /\ smp_pc = "capture"
    /\ cpu_usages' = Append(cpu_usages, cpu)
    /\ mem_usages' = Append(mem_usages, mem)
    /\ cpu_temps' = IF sensors \in {"coretemp", "cpu-thermal", "coretemp+amdgpu"}
                    THEN Append(cpu_temps, temp) ELSE cpu_temps
    /\ gpu_temps' = IF sensors \in {"amdgpu", "coretemp+amdgpu"}
                    THEN Append(gpu_temps, temp) ELSE gpu_temps
    /\ smp_wake' = now + SamplerSleep
    /\ smp_pc' = IF TickContinues(sensors) THEN "sleep" ELSE "exited"
    /\ hist' = IF interrupt_flag
               THEN [hist EXCEPT !.late_samples = @ + 1]
               ELSE hist
    /\ UNCHANGED <<env, now, interrupt_flag, monitoring_data,
                   calculation_results, args, main_pc, start_time,
                   test_function_name, iterations, i, actual_duration, results,
                   mon_pc, mon_wake, smp_start_time, run_no, sigints>>

\* A sampler without the ceiling.
CeilingExceeded_Never(elapsed) == FALSE

\* The condition of line 388.
CeilingExceeded(elapsed) == elapsed > MaxDuration

\* psutil.cpu_percent or psutil.virtual_memory raises (lines 371-372, outside
\* the try of line 376): the exception ends the thread before lines 391-394,
\* so nothing is stored in monitoring_data.
SamplerCaptureFails ==
    /\ smp_pc = "capture"
    /\ smp_pc' = "exited"
    /\ hist' = [hist EXCEPT !.capture_failed = TRUE, !.late_samples = 0]
    /\ UNCHANGED <<env, now, interrupt_flag, monitoring_data,
                   calculation_results, args, main_pc, start_time,
                   test_function_name, iterations, i, actual_duration, results,
                   mon_pc, mon_wake, smp_start_time, smp_wake, cpu_usages,
                   mem_usages, cpu_temps, gpu_temps, run_no, sigints>>

\* time.sleep returns; the ceiling check of lines 388-389.
SamplerWake ==
    /\ smp_pc = "sleep"
    /\ now >= smp_wake
    /\ smp_pc' = IF CeilingExceeded(now - smp_start_time) THEN "publish" ELSE "check"
    /\ UNCHANGED <<env, now, interrupt_flag, monitoring_data,
                   calculation_results, args, main_pc, start_time,
                   test_function_name, iterations, i, actual_duration, results,
                   mon_pc, mon_wake, smp_start_time, smp_wake, cpu_usages,
                   mem_usages, cpu_temps, gpu_temps, run_no, sigints, hist>>

\* Lines 391-395: the lists are stored in monitoring_data; the thread ends.
SamplerPublish ==
    /\ smp_pc = "publish"
    /\ monitoring_data' =
         SetKey(SetKey(SetKey(SetKey(monitoring_data, "cpu", cpu_usages),
                              "mem", mem_usages),
                       "cpu_temp", cpu_temps),
                "gpu_temp", gpu_temps)
    /\ smp_pc' = "exited"
    /\ hist' = [hist EXCEPT !.late_samples = 0]
    /\ UNCHANGED <<env, now, interrupt_flag, calculation_results, args,
                   main_pc, start_time, test_function_name, iterations, i,
                   actual_duration, results, mon_pc, mon_wake, smp_start_time,
                   smp_wake, cpu_usages, mem_usages, cpu_temps, gpu_temps,
                   run_no, sigints>>

(***************************************************************************)
(* SIGINT and the passage of time.                                         *)
(***************************************************************************)
\* A handler that toggles the flag.
HandlerValue_Toggle == ~interrupt_flag

\* The value signal_handler stores in interrupt_flag (line 1207).
HandlerValue == TRUE

\* signal_handler (lines 1201-1209), installed before the configuration.
signal_handler ==
    /\ main_pc # "aborted"
    /\ sigints < MaxSigints
    /\ sigints' = sigints + 1
    /\ interrupt_flag' = HandlerValue
    /\ hist' = IF RunActive THEN [hist EXCEPT !.sigint_in_run = TRUE] ELSE hist
    /\ UNCHANGED <<env, now, monitoring_data, calculation_results, args,
                   main_pc, start_time, test_function_name, iterations, i,
                   actual_duration, results, mon_pc, mon_wake, smp_pc,
                   smp_start_time, smp_wake, cpu_usages, mem_usages, cpu_temps,
                   gpu_temps, run_no>>

\* A sleeper whose sleep has not yet lasted its full length, and whose
\* sleep ends without any further event. A sampler that finds the flag
\* False sleeps again and again: time is followed through those sleeps
\* only in the environments that run to the ceiling.
SleeperWaits ==
    \/ mon_pc = "sleep" /\ now < mon_wake
    \/ smp_pc = "sleep" /\ now < smp_wake /\ (interrupt_flag \/ env.to_ceiling)

\* With bounded jitter no sleep overshoots by more than BoundedJitter and the
\* steps of the monitor and sampler threads between two sleeps take no time.
Punctual ==
    /\ mon_pc = "sleep" => now < mon_wake + BoundedJitter
    /\ smp_pc = "sleep" => now < smp_wake + BoundedJitter
    /\ mon_pc # "start"
    /\ ~(mon_pc = "join_t" /\ smp_pc = "exited")
    /\ smp_pc \notin {"begin", "check", "capture", "publish"}

Tick ==
    /\ now < env.horizon \/ SleeperWaits
    /\ env.bounded_jitter => Punctual
    /\ now' = now + 1
    /\ UNCHANGED <<env, interrupt_flag, monitoring_data, calculation_results,
                   args, main_pc, start_time, test_function_name, iterations, i,
                   actual_duration, results, mon_pc, mon_wake, smp_pc,
                   smp_start_time, smp_wake, cpu_usages, mem_usages, cpu_temps,
                   gpu_temps, run_no, sigints, hist>>

(***************************************************************************)
(* The specifications.                                                     *)
(***************************************************************************)
Call ==
    \E tt \in env.test_types, lt \in env.load_types, cx \in env.complexities,
       d \in env.durations, pm \in env.modes :
        RunPerformanceTest(tt, lt, cx, d, pm)

\* One pass through lines 371-387, with the outcome of the readings.
Sample ==
    \E k \in env.capture, c \in env.cpu, m \in env.mem, s \in env.sensors,
       t \in env.temp :
        IF k = "raises" THEN SamplerCaptureFails ELSE SamplerTick(c, m, s, t)

MainStep ==
    WorkloadEnter \/ WorkloadCheck \/ WorkloadStep \/ WorkloadFault
        \/ MainJoin \/ MainFinish

MonitorStep ==
    MonitorStart \/ GovernorRaise \/ PerfPoll \/ PerfPollWake \/ MonitorJoin

SamplerStep ==
    SamplerBegin \/ SamplerCheck \/ Sample \/ SamplerWake \/ SamplerPublish

Next ==
    \/ Call
    \/ WorkloadEnter
    \/ WorkloadCheck
    \/ WorkloadStep
    \/ WorkloadFault
    \/ MainJoin
    \/ MainFinish
    \/ MonitorStart
    \/ GovernorRaise
    \/ PerfPoll
    \/ PerfPollWake
    \/ MonitorJoin
    \/ SamplerBegin
    \/ SamplerCheck
    \/ Sample
    \/ SamplerWake
    \/ SamplerPublish
    \/ signal_handler
    \/ Tick

Spec == Init /\ [][Next]_vars

\* The same program where no sleep overshoots by a sampling interval.
SpecPunctual == InitPunctual /\ [][Next]_vars

\* Runs longer than the ceiling of the sampler.
SpecCeiling == InitCeiling /\ [][Next]_vars

\* Every workload.
SpecVariants == InitVariants /\ [][Next]_vars

\* Hosts with intermittent temperature sensors.
SpecSensors == InitSensors /\ [][Next]_vars

\* Each workload once.
SpecWorkloads == InitWorkloads /\ [][Next]_vars

\* Nonce searches.
SpecNonce == InitNonce /\ [][Next]_vars

\* Varying CPU and memory readings.
SpecUsage == InitUsage /\ [][Next]_vars

\* Hosts without usable temperature sensors.
SpecNoSensors == InitNoSensors /\ [][Next]_vars

\* The same program under fair scheduling: the interpreter keeps switching
\* between the runnable threads and time passes. SIGINT and further calls
\* of run_performance_test are not forced to happen.
FairSpec ==
    /\ InitFair
    /\ [][Next]_vars
    /\ WF_vars(MainStep)
    /\ WF_vars(MonitorStep)
    /\ WF_vars(SamplerStep)
    /\ WF_vars(Tick)

(***************************************************************************)
(* The properties.                                                         *)
(***************************************************************************)
Known == test_function_name \in test_functions

StatKeys == {"cpu_usage_avg", "cpu_usage_peak", "memory_usage_avg",
             "memory_usage_peak", "cpu_temperature_avg", "gpu_temperature_avg"}

\* C1: in Performance Mode, once the workload has run to natural completion,
\* the run terminates unless an external interrupt occurs:
\* run_performance_test returns.
C1_PerfRunTerminates ==
    (args.performance_mode /\ hist.natural /\ main_pc = "join")
        ~> (main_pc = "done" \/ sigints > 0)

\* C2: a Timed Mode run of a known workload returns only after at least
\* duration have elapsed since start_time, whatever the workload and the
\* interrupt did.
C2_TimedRunLastsDuration ==
    (main_pc = "done" /\ Known /\ ~args.performance_mode)
        => /\ actual_duration >= args.duration
           /\ now - start_time >= args.duration
           /\ results["duration"] >= args.duration

\* A Timed run that was interrupted and finished its workload early has
\* returned after exactly the duration.
C2_Witness ==
    /\ main_pc = "done" /\ Known /\ ~args.performance_mode
    /\ hist.sigint_in_run
    /\ args.duration > 0
    /\ actual_duration = args.duration

\* C3: once interrupt_flag is True no step of any component sets it back
\* to False.
C3_FlagMonotonic == [][interrupt_flag => interrupt_flag']_vars

\* A second run has gone through all its steps with the flag raised since
\* the first.
C3_Witness ==
    /\ interrupt_flag /\ run_no = 2 /\ hist.flag_at_start
    /\ main_pc = "done" /\ smp_pc = "exited" /\ mon_pc = "exited"

\* C4: when the sampler recorded zero ticks the record returned is the
\* "no monitoring data" error and carries no statistic field.
C4_EmptyBufferIsError ==
    (main_pc = "done" /\ Known /\ cpu_usages = <<>>)
        => /\ "error" \in DOMAIN results
           /\ results["error"] = "no_monitoring_data"
           /\ DOMAIN results \cap StatKeys = {}

\* A run has returned whose sampler found the flag raised at its first check.
C4_Witness ==
    /\ main_pc = "done" /\ Known /\ smp_pc = "exited"
    /\ cpu_usages = <<>>
    /\ "cpu" \in DOMAIN monitoring_data /\ monitoring_data["cpu"] = <<>>
    /\ "error" \in DOMAIN results

C6_FaultRaisesSignal ==
    (main_pc = "aborted" /\ hist.fault = "step") => interrupt_flag

\* C7: with an unknown workload kind, load-type key or complexity key the
\* run does not start: no thread is launched, no step runs and the error
\* is returned.
C7_ConfigErrorStartsNothing ==
    (run_no > 0 /\ (~Known \/ args.load_type \notin LOAD_TYPES
                              \/ args.complexity \notin ComplexityKeys))
        => /\ mon_pc = "idle" /\ smp_pc = "idle"
           /\ main_pc = "done"
           /\ "error" \in DOMAIN results

\* C8: the record returned by a run that a SIGINT interrupted is marked as
\* interrupted and holds the statistics of the samples collected.
C8_InterruptedIsMarked ==
    (main_pc = "done" /\ Known /\ hist.sigint_in_run)
        => /\ "interrupted" \in DOMAIN results
           /\ results["interrupted"] = TRUE
           /\ StatKeys \subseteq DOMAIN results

\* C9: the signal is False when run_performance_test launches its monitor
\* thread and invokes its workload.
C9_FreshSignal == RunActive => ~hist.flag_at_start

\* C10: after a SIGINT in mid-run the sampler and the monitor thread exit
\* and the call of run_performance_test ends, and the counters of the
\* workload never go back: once the workload has stopped they stay as they
\* are.
Unwound ==
    /\ smp_pc = "exited" /\ mon_pc = "exited"
    /\ main_pc \in {"done", "aborted"}

CountersLE(a, b) ==
    /\ a.iterations_completed <= b.iterations_completed
    /\ a.calculations_performed <= b.calculations_performed
    /\ a.data_processed <= b.data_processed
    /\ \A k \in DOMAIN a.test_specific_results :
          /\ k \in DOMAIN b.test_specific_results
          /\ a.test_specific_results[k] <= b.test_specific_results[k]

NoRollback ==
    (RunActive /\ hist.sigint_in_run)
        => /\ CountersLE(calculation_results, calculation_results')
           /\ main_pc \in {"join", "measure"}
                 => calculation_results' = calculation_results

C10_InterruptUnwinds ==
    /\ (RunActive /\ hist.sigint_in_run) ~> Unwound
    /\ [][NoRollback]_vars

\* An interrupted run of the workload with counters has returned with the
\* counters of the steps it completed.
C10_Witness ==
    /\ main_pc = "done" /\ hist.sigint_in_run /\ ~hist.natural
    /\ test_function_name = "bitcoin_mining"
    /\ calculation_results.iterations_completed > 0
    /\ Unwound

\* C11: in Performance Mode, while the workload is still running and no
\* interrupt occurred, the sampler has not stopped sampling: it stops on the
\* completion of the workload or an interrupt, never on elapsed time.
C11_SamplerBoundToWorkload ==
    (args.performance_mode /\ main_pc \in {"check", "step"} /\ sigints = 0)
        => smp_pc \notin {"publish", "exited"}

\* The steps the workload has completed in this run.
StepsDone == IF test_function_name = "prime_numbers" THEN i - 2 ELSE i

\* The workload has been entered and its loop variable holds.
InLoop == Known /\ main_pc \in {"check", "step", "join", "measure", "done"}

\* C12: when bitcoin_mining_simulation, configured for N iterations, has run
\* to natural completion, iterations_completed equals N, the number of
\* steps executed.
C12_CompletedCountsAll ==
    (InLoop /\ test_function_name = "bitcoin_mining" /\ hist.natural)
        => /\ calculation_results.iterations_completed
                = Iterations("bitcoin_mining", args.complexity)
           /\ calculation_results.iterations_completed = StepsDone

\* A run of more than one iteration has completed and returned, the flag not
\* raised before its last step.
C12_Witness ==
    /\ main_pc = "done" /\ test_function_name = "bitcoin_mining"
    /\ hist.natural /\ hist.late_steps = 0
    /\ calculation_results.iterations_completed >= 2

\* The reference count: the nonces below k whose digest starts with "00".
ReferenceBlocks(k) == Cardinality({n \in 0..(k - 1) : n \in ZeroPrefixNonces})

\* C13: after k steps of bitcoin_mining_simulation (nonces 0..k-1)
\* blocks_found equals the number of those nonces whose digest starts with
\* "00", so it is a function of the number of steps alone.
C13_BlocksMatchReference ==
    (InLoop /\ test_function_name = "bitcoin_mining")
        => calculation_results.test_specific_results["blocks_found"]
               = ReferenceBlocks(StepsDone)

\* A run has completed past the first nonce whose digest starts with "00".
C13_Witness ==
    /\ main_pc = "done" /\ test_function_name = "bitcoin_mining"
    /\ hist.natural /\ StepsDone = 3
    /\ calculation_results.test_specific_results["blocks_found"] = 1

\* C14: every workload checks the flag before each step: once the flag is
\* raised no further step is started, the workload returns at its next
\* check, and at most one step, the one in progress when the flag was
\* raised, completes with the flag raised.
StartsNoStepOnceRaised ==
    /\ (main_pc # "step" /\ main_pc' = "step") => ~interrupt_flag
    /\ (main_pc = "check" /\ main_pc' # "check" /\ interrupt_flag)
           => main_pc' = "join"

C14_CheckBeforeEachStep ==
    /\ [][StartsNoStepOnceRaised]_vars
    /\ [](hist.late_steps <= 1)

\* A workload without counters has returned before its last iteration,
\* after the step that was in progress when the flag was raised.
C14_Witness ==
    /\ test_function_name = "hash_calculation" /\ main_pc = "join"
    /\ hist.late_steps = 1 /\ ~hist.natural /\ i < iterations

\* C15: the sampler loop ends even if the flag is never raised: the check
\* that follows a sleep leaves the loop once more than max_duration has
\* elapsed since the sampler started, no sample is appended after that much
\* time, and the sampler is out of its loop when its last sleep, begun before
\* the ceiling, is over.
CeilingExit ==
    /\ (smp_pc = "sleep" /\ smp_pc' # "sleep"
            /\ now - smp_start_time > MaxDuration)
           => (smp_pc' = "publish" /\ cpu_usages' = cpu_usages)
    /\ Len(cpu_usages') > Len(cpu_usages)
           => now - smp_start_time <= MaxDuration

SamplerWithinCeiling ==
    smp_pc \in {"check", "capture", "sleep", "publish"}
        => now - smp_start_time
               <= MaxDuration + MonitoringInterval + BoundedJitter

C16_AggregateAfterWriterStops ==
    (Known /\ main_pc \in {"measure", "done"})
        => (smp_pc = "exited" /\ mon_pc = "exited")

\* The main thread is about to aggregate the samples the sampler published.
C16_Witness ==
    /\ main_pc = "measure" /\ smp_pc = "exited" /\ mon_pc = "exited"
    /\ "cpu" \in DOMAIN monitoring_data
    /\ Len(monitoring_data["cpu"]) >= 2

\* C17: of a run with at least one tick, each temperature average is the
\* mean of the readings of the ticks that had one (ticks without a reading
\* are left out, not counted as zero), it is 0 when no tick had a reading,
\* and the run returns no error.
TemperatureAverage(readings) ==
    IF readings = <<>> THEN Zero
    ELSE [num |-> Sum(readings), den |-> Len(readings)]

C17_TemperatureMeanOfPresent ==
    (main_pc = "done" /\ Known /\ cpu_usages # <<>> /\ ~hist.capture_failed)
        => /\ "error" \notin DOMAIN results
           /\ "cpu_temperature_avg" \in DOMAIN results
           /\ "gpu_temperature_avg" \in DOMAIN results
           /\ results["cpu_temperature_avg"] = TemperatureAverage(cpu_temps)
           /\ results["gpu_temperature_avg"] = TemperatureAverage(gpu_temps)

\* Two ticks, one CPU reading of 80, no GPU reading: the averages are 80 and 0.
C17_Witness ==
    /\ main_pc = "done" /\ Known
    /\ Len(cpu_usages) = 2 /\ cpu_temps = <<80>> /\ gpu_temps = <<>>
    /\ results["cpu_temperature_avg"] = [num |-> 80, den |-> 1]
    /\ results["gpu_temperature_avg"] = Zero

\* C18: each of the ten workloads counts its steps: after k completed steps
\* iterations_completed equals k.
C18_EveryVariantCounts ==
    InLoop => calculation_results.iterations_completed = StepsDone

\* C19: a CPU or memory reading that raises inside the sampler does not
\* abort the run: the main thread is not left by an exception because of
\* it, a Timed run (and a Performance run once interrupted) still returns,
\* and the record returned holds the "no monitoring data" error and no
\* statistic.
CaptureFailureDegrades ==
    hist.capture_failed
        => /\ main_pc = "aborted" => hist.fault # None
           /\ (main_pc = "done" /\ Known)
                 => /\ "error" \in DOMAIN results
                    /\ DOMAIN results \cap StatKeys = {}
                    /\ "duration" \in DOMAIN results

GovernorRaisesAfterSleep ==
    (hist.at_raise < 0 /\ hist'.at_raise >= 0)
        => /\ now >= mon_wake
           /\ mon_wake >= start_time + args.duration
           /\ interrupt_flag'

C20_GovernorAlwaysRaises ==
    /\ [][GovernorRaisesAfterSleep]_vars
    /\ []((main_pc = "done" /\ Known /\ ~args.performance_mode)
             => (interrupt_flag /\ hist.at_raise >= 0))
    /\ (~args.performance_mode /\ mon_pc = "sleep")
          ~> ((interrupt_flag /\ hist.at_raise >= 0) \/ main_pc = "aborted")

\* The governor has raised the flag after the workload had run to its end.
C20_Witness ==
    /\ ~args.performance_mode /\ hist.natural /\ main_pc = "join"
    /\ hist.at_raise >= 0 /\ hist.raised_first /\ sigints = 0
    /\ interrupt_flag /\ hist.late_steps = 0

\* ---------------------------------------------------------------------------
\* C21.  No workload raises the cancellation signal: a step of the main thread
\* inside a workload (entering it, testing the flag, running one loop body)
\* leaves interrupt_flag as it was, for each of the ten workloads; whenever the
\* flag goes from lowered to raised during a run, the step is the governor's
\* raise or the delivery of a SIGINT.
WorkloadMoves ==
    main_pc \in {"enter", "check", "step"} /\ main_pc' # main_pc

RaisedByGovernorOrSigint ==
    (~interrupt_flag /\ interrupt_flag')
        => \/ sigints' = sigints + 1
           \/ mon_pc = "sleep" /\ mon_pc' = "join_t"

C21_WorkloadLeavesSignal ==
    [][(WorkloadMoves => interrupt_flag' = interrupt_flag)
       /\ RaisedByGovernorOrSigint]_vars

\* the governor raised the flag while a loop body was running, and the
\* body has run to its end
C21_Witness ==
    /\ main_pc = "check"
    /\ test_function_name = "neural_simulation"
    /\ interrupt_flag /\ hist.raised_first /\ sigints = 0
    /\ hist.late_steps = 1

\* ---------------------------------------------------------------------------
\* C22.  Raising the signal is idempotent: when interrupt_flag is already
\* raised, the governor's raise and the delivery of a SIGINT leave it raised
\* and change nothing else of the program's state (the buffer, the counters,
\* the results, the position of the workload and of the sampler); only the
\* raiser itself moves on.
RaiseStep ==
    \/ sigints' = sigints + 1
    \/ mon_pc = "sleep" /\ mon_pc' = "join_t"

RaiseOnRaisedIsNoOp ==
    (interrupt_flag /\ RaiseStep)
        => /\ interrupt_flag'
           /\ UNCHANGED <<monitoring_data, calculation_results, args, main_pc,
                          start_time, test_function_name, iterations, i,
                          actual_duration, results, mon_wake, smp_pc,
                          smp_start_time, smp_wake, cpu_usages, mem_usages,
                          cpu_temps, gpu_temps, run_no, now>>

C22_RaiseIdempotent == [][RaiseOnRaisedIsNoOp]_vars

\* the governor has raised a flag that a SIGINT had raised before it
C22_Witness ==
    /\ hist.at_raise >= 0 /\ ~hist.raised_first
    /\ hist.sigint_in_run /\ ~hist.flag_at_start
    /\ interrupt_flag

\* ---------------------------------------------------------------------------
\* C23.  A run starts from zero: from the call of run_performance_test until
\* the first workload step has been completed, iterations_completed,
\* calculations_performed and data_processed are 0 and test_specific_results
\* holds no non-zero value, whatever the previous run left in the result
\* store.
BeforeFirstStep ==
    \/ main_pc = "enter"
    \/ main_pc \in {"check", "step"} /\ StepsDone = 0

NoNonZeroResult(tsr) == \A k \in DOMAIN tsr : tsr[k] = 0

C23_RunStartsFromZero ==
    BeforeFirstStep
        => /\ calculation_results.iterations_completed = 0
           /\ calculation_results.calculations_performed = 0
           /\ calculation_results.data_processed = 0
           /\ NoNonZeroResult(calculation_results.test_specific_results)

\* a second run is about to enter the workload after a first run that
\* completed a step (i still holds the first run's count)
C23_Witness ==
    /\ run_no = 2 /\ main_pc = "enter"
    /\ test_function_name = "bitcoin_mining"
    /\ i >= 1
    /\ calculation_results.iterations_completed = 0

\* ---------------------------------------------------------------------------
\* C24.  For a non-empty buffer the reported CPU and memory peaks are the
\* greatest recorded sample (no sample exceeds the peak and some sample equals
\* it), the reported averages are the sum of the samples over their number,
\* and so least sample <= average <= peak for both (the average is the
\* fraction num / den, compared by cross-multiplication).
IsPeakOf(p, s) ==
    /\ \A k \in 1..Len(s) : s[k] <= p
    /\ \E k \in 1..Len(s) : s[k] = p

IsMeanOf(a, s) ==
    /\ a.num = Sum(s) /\ a.den = Len(s)

AverageWithinRange(a, p, s) ==
    /\ \E k \in 1..Len(s) : s[k] * a.den <= a.num
    /\ a.num <= p * a.den

Aggregated == main_pc = "done" /\ Known /\ "cpu_usage_avg" \in DOMAIN results

SamplerStarted == smp_pc # "idle"

C25_SamplerBeforeWorkload ==
    (Known /\ main_pc = "step") => SamplerStarted

\* ---------------------------------------------------------------------------
\* C26.  A failing or absent temperature sensor never aborts the sampler: on
\* a host where psutil.sensors_temperatures() reports nothing or raises on
\* every tick, each tick still appends the CPU and the memory reading, appends
\* no temperature, and goes on to the sleep that precedes the next tick.
TickTaken == smp_pc = "capture" /\ smp_pc' # "capture"

TickSurvivesSensors ==
    TickTaken
        => /\ Len(cpu_usages') = Len(cpu_usages) + 1
           /\ Len(mem_usages') = Len(mem_usages) + 1
           /\ cpu_temps' = cpu_temps /\ gpu_temps' = gpu_temps
           /\ smp_pc' = "sleep"

C26_SensorFailureTolerated ==
    [][TickSurvivesSensors]_vars /\ [](cpu_temps = <<>> /\ gpu_temps = <<>>)

\* a second tick has been recorded after a first one without temperatures
C26_Witness ==
    /\ env = EnvNoSensors
    /\ smp_pc = "sleep"
    /\ Len(cpu_usages) = 2 /\ Len(mem_usages) = 2
    /\ cpu_temps = <<>> /\ gpu_temps = <<>>

\* ---------------------------------------------------------------------------
\* C27.  In Timed Mode every run of a known workload terminates under fair
\* scheduling, with or without a SIGINT: unless the workload itself raises an
\* exception, run_performance_test returns; and when it has returned, the
\* governor has raised the flag, the sampler and the monitor thread have
\* ended (both joins are complete) and the result carries the duration.
TimedRun == ~args.performance_mode /\ Known

TimedReturned ==
    (main_pc = "done" /\ TimedRun)
        => /\ interrupt_flag /\ hist.at_raise >= 0
           /\ smp_pc = "exited" /\ mon_pc = "exited"
           /\ "duration" \in DOMAIN results

C27_TimedRunTerminates ==
    /\ (RunActive /\ TimedRun) ~> (main_pc = "done" \/ hist.fault # None)
    /\ []TimedReturned

\* a Timed run that the governor cut short has returned its statistics
C27_Witness ==
    /\ main_pc = "done" /\ TimedRun /\ sigints = 0
    /\ test_function_name = "bitcoin_mining"
    /\ ~hist.natural /\ hist.raised_first
    /\ "cpu_usage_avg" \in DOMAIN results

\* ---------------------------------------------------------------------------
\* C28.  When no capture fails, the buffer handed to the aggregator is empty
\* exactly when the flag was already raised at the sampler's first check; a
\* sampler that finds the flag lowered at its first check records at least
\* one sample, also when the duration is shorter than one sampling interval.
AtAggregation == Known /\ main_pc \in {"measure", "done"}

BufferEmpty == "cpu" \notin DOMAIN monitoring_data \/ monitoring_data["cpu"] = <<>>

C28_EmptyIffRaisedAtFirstCheck ==
    (AtAggregation /\ ~hist.capture_failed)
        => /\ hist.first_check \in {"raised", "clear"}
           /\ BufferEmpty <=> hist.first_check = "raised"
           /\ hist.first_check = "clear" => Len(monitoring_data["cpu"]) >= 1

\* a Timed run shorter than one interval, not interrupted, with one sample
C28_Witness ==
    /\ AtAggregation /\ ~hist.capture_failed
    /\ ~args.performance_mode /\ args.duration < MonitoringInterval
    /\ sigints = 0 /\ hist.first_check = "clear"
    /\ Len(monitoring_data["cpu"]) = 1

\* a run whose sampler found the flag raised at its first check
C28_WitnessEmpty ==
    /\ AtAggregation /\ ~hist.capture_failed
    /\ hist.first_check = "raised" /\ ~hist.flag_at_start
    /\ BufferEmpty

\* ---------------------------------------------------------------------------
\* C29.  Once the flag is raised the sampler appends at most one further
\* sample (the one of a tick already past its check) and leaves its loop at
\* its next check: a check that finds the flag raised goes to the publication
\* of the lists, and after the raise the sampler starts at most one sleep of
\* one sampling interval.
ExitsAtNextCheck ==
    (smp_pc = "check" /\ smp_pc' # "check" /\ interrupt_flag)
        => smp_pc' = "publish"

OneSleepAfterRaise ==
    (interrupt_flag /\ smp_pc # "sleep" /\ smp_pc' = "sleep")
        => /\ hist.late_samples = 0
           /\ smp_wake' = now + MonitoringInterval

\* what is left of a sleep under a raised flag is at most one interval
RemainingSleep ==
    (interrupt_flag /\ smp_pc = "sleep") => smp_wake <= now + MonitoringInterval

C29_AtMostOneLateSample ==
    /\ [](hist.late_samples <= 1 /\ RemainingSleep)
    /\ [][ExitsAtNextCheck /\ OneSleepAfterRaise]_vars

\* the governor raised the flag between the sampler's check and its tick: the
\* second sample was appended after the raise, and the next check has ended
\* the loop
C29_Witness ==
    /\ hist.late_samples = 1 /\ hist.raised_first
    /\ sigints = 0 /\ Len(cpu_usages) = 2
    /\ smp_pc = "publish"

\* ---------------------------------------------------------------------------
\* C30.  At every step boundary of the nonce search, iterations_completed =
\* calculations_performed = hashes_calculated <= the configured iteration
\* count, and blocks_found <= hashes_calculated; during a run no counter
\* decreases, also when the run is cancelled part-way.
NonceSearch == Known /\ test_function_name = "bitcoin_mining"

NonceCountersAgree ==
    (NonceSearch /\ InLoop)
        => LET cr == calculation_results
               tsr == cr.test_specific_results
           IN  /\ cr.iterations_completed = cr.calculations_performed
               /\ cr.calculations_performed = tsr.hashes_calculated
               /\ tsr.hashes_calculated <= iterations
               /\ tsr.blocks_found <= tsr.hashes_calculated
               /\ tsr.blocks_found >= 0

NonceCountersGrow ==
    (NonceSearch /\ run_no' = run_no)
        => CountersLE(calculation_results, calculation_results')

C30_NonceCounters ==
    []NonceCountersAgree /\ [][NonceCountersGrow]_vars

\* a nonce search cancelled part-way has returned with the counters of the
\* steps it completed
C30_Witness ==
    /\ NonceSearch /\ args.complexity = "hard"
    /\ main_pc = "done" /\ ~hist.natural
    /\ calculation_results.iterations_completed >= 1
    /\ calculation_results.iterations_completed < iterations
    /\ calculation_results.test_specific_results.hashes_calculated
          = calculation_results.iterations_completed

\* ---------------------------------------------------------------------------
\* C31.  At every tick boundary of the sampler the CPU list and the memory
\* list have the same length, each tick adding one record to both, and the
\* CPU-temperature list and the GPU-temperature list are each no longer than
\* the CPU list; the same holds of the lists once they are published.
ListsAligned(c, m, ct, gt) ==
    /\ Len(m) = Len(c)
    /\ Len(ct) <= Len(c)
    /\ Len(gt) <= Len(c)

SamplerListsAligned ==
    /\ ListsAligned(cpu_usages, mem_usages, cpu_temps, gpu_temps)
    /\ "cpu" \in DOMAIN monitoring_data
          => ListsAligned(monitoring_data["cpu"], monitoring_data["mem"],
                          monitoring_data["cpu_temp"],
                          monitoring_data["gpu_temp"])

OneRecordOfEachPerTick ==
    TickTaken
        => /\ Len(cpu_usages') = Len(cpu_usages) + 1
           /\ Len(mem_usages') = Len(mem_usages) + 1
           /\ Len(cpu_temps') \in {Len(cpu_temps), Len(cpu_temps) + 1}
           /\ Len(gpu_temps') \in {Len(gpu_temps), Len(gpu_temps) + 1}

C31_SampleListsAligned ==
    []SamplerListsAligned /\ [][OneRecordOfEachPerTick]_vars

\* two ticks, one with a CPU temperature and one with a GPU temperature
C31_Witness ==
    /\ smp_pc = "sleep"
    /\ Len(cpu_usages) = 2 /\ Len(mem_usages) = 2
    /\ Len(cpu_temps) = 1 /\ Len(gpu_temps) = 1

====
